---- MODULE Spec2Model ----
(***************************************************************************)
(* Momentum detection of collep/nba-momentum-dbn                           *)
(* (src/python/momentum_events.py): calculateExplosiveness,                *)
(* findGameMomentumEvents and calculateIntervalExplosivenessCategorical.   *)
(*                                                                         *)
(* Representation.                                                         *)
(*  - eventClock is a float number of seconds (pbp_data.py eventClock);    *)
(*    it is held in ticks, TicksPerSecond ticks to the second, so that     *)
(*    int(), floor division and the comparisons of a fractional clock with *)
(*    an integer second are computed and not assumed.                      *)
(*  - an intensity is a float quotient of two integers; it is held as the  *)
(*    exact fraction [num, den] with den > 0 and compared by cross         *)
(*    multiplication.  den = 0 stands for NaN (reindex(method='ffill')     *)
(*    before the first recorded clock), which no comparison accepts.       *)
(*  - None (momentumStartTime) is the value None below.                    *)
(***************************************************************************)
EXTENDS Integers, Sequences, FiniteSets, TLC

\* ------------------------------------------------------------------ bounds
TicksPerSecond == 2
MaxEvents == 2
MaxClock == 4
MaxWidth == 3
MaxRetries == 3

\* ------------------------------------------------------- program constants
RegulationSeconds == 2880
None == -1

Home == "Home Momentum"
Away == "Away Momentum"

VARIABLES
    pbpGameData,          \* the caller's event table, a sequence of rows
    explosivenessThreshold, \* [num, den], den > 0
    time_min, time_max,   \* lookahead bounds, seconds
    pc,                   \* "scan", "categorize", "done"
    current_time,         \* the cursor of findGameMomentumEvents
    momentumEvents,       \* raw records, in emission order
    aggregatedDataframe,  \* the returned episode table
    momentumIntensities,  \* the returned interval table
    time_window,          \* interval width of the categorizer call, 0 before it
    iterations,           \* number of completed iterations of the scan loop
    scan_from,            \* cursor at the start of the last iteration (0: none)
    intensities,          \* samples returned to the last iteration
    walked,               \* significant samples walked by the last iteration
    scoreDiffs,           \* the filled differentials of the last iteration
    windowedGameData,     \* the windowed copy of the table the categorizer built
    retries,              \* retry: the number of attempts allowed
    attempts,             \* retryWrapper: failed attempts so far
    wrapper_pc,           \* "idle", "calling", "returned", "raised"
    wrapper_args,         \* the game id the wrapped function is called with
    wrapper_result        \* what the call returned, None for no value

vars == <<pbpGameData, explosivenessThreshold, time_min, time_max, pc,
          current_time, momentumEvents, aggregatedDataframe,
          momentumIntensities, time_window, iterations, scan_from,
          intensities, walked, scoreDiffs, windowedGameData, retries,
          attempts, wrapper_pc, wrapper_args, wrapper_result>>

\* the state of the retry wrapper, which the momentum functions never touch
wrapperVars == <<retries, attempts, wrapper_pc, wrapper_args, wrapper_result>>
NoWrappedCall ==
    /\ retries = 0
    /\ attempts = 0
    /\ wrapper_pc = "idle"
    /\ wrapper_args = None
    /\ wrapper_result = None

\* ------------------------------------------------------------- arithmetic
Min(a, b) == IF a <= b THEN a ELSE b
Max(a, b) == IF a >= b THEN a ELSE b
Abs(a) == IF a < 0 THEN -a ELSE a

SetMax(S) == CHOOSE x \in S : \A y \in S : y <= x
SetMin(S) == CHOOSE x \in S : \A y \in S : x <= y

\* int(x) of a non-negative float held in ticks
IntOf(ticks) == ticks \div TicksPerSecond

Frac(n, d) == [num |-> n, den |-> d]
NaN == Frac(0, 0)
IsNaN(x) == x.den = 0

\* comparisons of fractions; every comparison with NaN is false
FracLess(x, y) == ~IsNaN(x) /\ ~IsNaN(y) /\ x.num * y.den < y.num * x.den
FracLeq(x, y) == ~IsNaN(x) /\ ~IsNaN(y) /\ x.num * y.den <= y.num * x.den
FracEq(x, y) == ~IsNaN(x) /\ ~IsNaN(y) /\ x.num * y.den = y.num * x.den
FracAbs(x) == Frac(Abs(x.num), x.den)
FracAdd(x, y) == Frac(x.num * y.den + y.num * x.den, x.den * y.den)

\* --------------------------------------------------------- the event table
ScoreDiff(row) == row.scoreHome - row.scoreAway

\* pbpGameData['eventClock'].max(), in ticks
MaxEventTime(rows) == SetMax({rows[i].eventClock : i \in 1..Len(rows)})

\* line 31: the column score_diff is written into the caller's table
WithScoreDiff(rows) ==
    [i \in 1..Len(rows) |->
        [eventClock |-> rows[i].eventClock, scoreHome |-> rows[i].scoreHome,
         scoreAway |-> rows[i].scoreAway, score_diff |-> ScoreDiff(rows[i])]]

\* line 34: groupby('eventClock')['score_diff'].last(): the keys, and the
\* value of a key (the last row of the table with that clock)
ClockKeys(rows) == {rows[i].eventClock : i \in 1..Len(rows)}
\* variant: the first row of a clock, groupby(...).first()
LatestScore_First(rows, clock) ==
    ScoreDiff(rows[SetMin({i \in 1..Len(rows) : rows[i].eventClock = clock})])
LatestScore(rows, clock) ==
    ScoreDiff(rows[SetMax({i \in 1..Len(rows) : rows[i].eventClock = clock})])

\* line 77: int(max(max_event_time, 2880))
GameDuration(rows) ==
    IntOf(Max(MaxEventTime(rows), RegulationSeconds * TicksPerSecond))

\* ------------------------------------------------ calculateExplosiveness
\* line 28: range(start_time + time_min,
\*                min(start_time + time_max, int(eventClock.max())) + 1)
\* variant: the range begun at start_time itself
TimeRangeLow_FromStart(start_time, tmin) == start_time
TimeRangeLow(start_time, tmin) == start_time + tmin
\* variants: the window bounded by the scanned duration; the window without
\* its last second
TimeRangeHigh_GameDuration(rows, start_time, tmax) ==
    Min(start_time + tmax, GameDuration(rows))
TimeRangeHigh_Exclusive(rows, start_time, tmax) ==
    Min(start_time + tmax, IntOf(MaxEventTime(rows))) - 1
\* variant: the window one second longer
TimeRangeHigh_OnePast(rows, start_time, tmax) ==
    Min(start_time + tmax + 1, IntOf(MaxEventTime(rows)))
TimeRangeHigh(rows, start_time, tmax) ==
    Min(start_time + tmax, IntOf(MaxEventTime(rows)))

\* lines 37-38: the latest score difference strictly before start_time, else 0
\* variant: the reference taken at or before start_time
ScoreDiffStart_Inclusive(rows, start_time) ==
    LET before == {k \in ClockKeys(rows) : k <= start_time * TicksPerSecond}
    IN IF before = {} THEN 0 ELSE LatestScore(rows, SetMax(before))
ScoreDiffStart(rows, start_time) ==
    LET before == {k \in ClockKeys(rows) : k < start_time * TicksPerSecond}
    IN IF before = {} THEN 0 ELSE LatestScore(rows, SetMax(before))

\* line 41: latestScores.reindex(time_range, method='ffill') at second t:
\* the value of the greatest key <= t, NaN when there is none
FilledScoreDiff(rows, t) ==
    LET upto == {k \in ClockKeys(rows) : k <= t * TicksPerSecond}
    IN IF upto = {} THEN NaN ELSE Frac(LatestScore(rows, SetMax(upto)), 1)

\* line 47: (scoreDiffs - scoreDiffStart) / (scoreDiffs.index - start_time)
\* (time_min >= 1 in every call of the model, so the divisor is positive)
IntensityAt(rows, start_time, t) ==
    LET d == FilledScoreDiff(rows, t)
    IN IF IsNaN(d) THEN NaN
       ELSE Frac(d.num - ScoreDiffStart(rows, start_time), t - start_time)

\* line 41: the reindexed Series scoreDiffs over time_range, as the sequence
\* of its (index, value) items
ScoreDiffsSeries(rows, start_time, tmin, tmax) ==
    LET lo == TimeRangeLow(start_time, tmin)
        hi == TimeRangeHigh(rows, start_time, tmax)
    IN [i \in 1..Max(hi - lo + 1, 0) |->
           [time |-> lo + i - 1,
            score_diff |-> FilledScoreDiff(rows, lo + i - 1)]]

\* the returned Series, as the sequence of its (index, value) items; the
\* empty Series of lines 43-44 is the empty sequence
calculateExplosiveness(rows, start_time, tmin, tmax) ==
    LET lo == TimeRangeLow(start_time, tmin)
        hi == TimeRangeHigh(rows, start_time, tmax)
    IN [i \in 1..Max(hi - lo + 1, 0) |->
           [time |-> lo + i - 1,
            intensity |-> IntensityAt(rows, start_time, lo + i - 1)]]

\* ------------------------------------------------ findGameMomentumEvents
\* line 88: abs(intensities) >= explosivenessThreshold
\* variant: the change of the differential compared without its duration
IsSignificant_Unnormalized(intensity, threshold) ==
    ~IsNaN(intensity) /\ threshold.num <= Abs(intensity.num) * threshold.den
IsSignificant(intensity, threshold) == FracLeq(threshold, FracAbs(intensity))

SignificantMomentumIntervals(samples, threshold) ==
    SelectSeq(samples, LAMBDA s : IsSignificant(s.intensity, threshold))

\* lines 94, 99: 'negative' if intensity < 0 else 'positive'
Direction(intensity) == IF intensity.num < 0 THEN "negative" ELSE "positive"

\* lines 108, 121: 'Away Momentum' if intensity < 0 else 'Home Momentum'
SideOf(intensity) == IF intensity.num < 0 THEN Away ELSE Home

\* lines 102-103
\* variant: the build-up required to be longer than time_min
SetsMomentumStart_Strict(mst, moment_time, cursor, tmin, current_direction, momentum_direction) ==
    /\ mst = None
    /\ moment_time - cursor > tmin
    /\ current_direction = momentum_direction
\* variant: the momentum start set again at every matching sample
SetsMomentumStart_Resets(mst, moment_time, cursor, tmin, current_direction, momentum_direction) ==
    /\ moment_time - cursor >= tmin
    /\ current_direction = momentum_direction
SetsMomentumStart(mst, moment_time, cursor, tmin, current_direction, momentum_direction) ==
    /\ mst = None
    /\ moment_time - cursor >= tmin
    /\ current_direction = momentum_direction

\* line 107
\* variant: the guard one second short
IsReversal_NoGuard(moment_time, firstSignificant_time, current_direction, momentum_direction) ==
    /\ moment_time - firstSignificant_time > 0
    /\ current_direction # momentum_direction
\* variant: either condition closes the build-up
IsReversal_Either(moment_time, firstSignificant_time, current_direction, momentum_direction) ==
    \/ moment_time - firstSignificant_time > 1
    \/ current_direction # momentum_direction
IsReversal(moment_time, firstSignificant_time, current_direction, momentum_direction) ==
    /\ moment_time - firstSignificant_time > 1
    /\ current_direction # momentum_direction

\* lines 109-116 and 122-129
\* variant: the record keyed by the momentum start
RawRecord_KeyedByStart(cursor, momentumStartTime, s) ==
    [build_up_start_time |-> momentumStartTime,
     momentum_start_time |-> momentumStartTime,
     end_time |-> s.time,
     intensity |-> s.intensity,
     home_or_away |-> SideOf(s.intensity)]
\* variant: the record ended at the momentum start
RawRecord_EndAtStart(cursor, momentumStartTime, s) ==
    [build_up_start_time |-> cursor,
     momentum_start_time |-> momentumStartTime,
     end_time |-> momentumStartTime,
     intensity |-> s.intensity,
     home_or_away |-> SideOf(s.intensity)]
RawRecord(cursor, momentumStartTime, s) ==
    [build_up_start_time |-> cursor,
     momentum_start_time |-> momentumStartTime,
     end_time |-> s.time,
     intensity |-> s.intensity,
     home_or_away |-> SideOf(s.intensity)]

\* lines 98-132: the for loop over the significant samples from item i on.
\* st holds the loop's locals: momentum_direction, firstSignificant_time,
\* momentumStartTime, the records appended so far, the samples walked so far
\* and whether the loop ended by break.
RECURSIVE WalkFrom(_, _, _, _, _)
WalkFrom(sig, i, cursor, tmin, st) ==
    IF i > Len(sig) THEN st
    ELSE
      LET s == sig[i]
          current_direction == Direction(s.intensity)
          mst == IF SetsMomentumStart(st.momentumStartTime, s.time, cursor,
                                      tmin, current_direction,
                                      st.momentum_direction)
                 THEN s.time ELSE st.momentumStartTime
          rec == RawRecord(cursor, mst, s)
      IN IF IsReversal(s.time, st.firstSignificant_time, current_direction,
                       st.momentum_direction)
         THEN [st EXCEPT !.momentumStartTime = mst,
                         !.records = Append(@, rec),
                         !.walk = Append(@, [time |-> s.time,
                                             intensity |-> s.intensity,
                                             reversal |-> TRUE]),
                         !.broke = TRUE]
         ELSE WalkFrom(sig, i + 1, cursor, tmin,
                [momentum_direction |-> current_direction,
                 firstSignificant_time |-> s.time,
                 momentumStartTime |-> mst,
                 records |-> Append(st.records, rec),
                 walk |-> Append(st.walk, [time |-> s.time,
                                           intensity |-> s.intensity,
                                           reversal |-> FALSE]),
                 broke |-> FALSE])

\* lines 92-95: the locals before the for loop
WalkStart(sig) ==
    [momentum_direction |-> Direction(sig[1].intensity),
     firstSignificant_time |-> sig[1].time,
     momentumStartTime |-> None,
     records |-> <<>>,
     walk |-> <<>>,
     broke |-> FALSE]

\* line 117 (on break) followed by line 135, which runs after the for loop
\* whether or not it ended by break
\* variant: the cursor left on the last significant sample
CursorAfterWalk_AtLast(sig, st) == sig[Len(sig)].time
\* variant: the cursor moved past the first significant sample only
CursorAfterWalk_PastFirst(sig, st) == sig[1].time + 1
CursorAfterWalk(sig, st) == sig[Len(sig)].time + 1

\* line 138
\* variant: the cursor left where it is
CursorAfterIdle_Stuck(cursor) == cursor
CursorAfterIdle(cursor) == cursor + 1

\* ---------------------------------------------- aggregation, lines 140-163
RECURSIVE SortedSeq(_)
SortedSeq(S) ==
    IF S = {} THEN <<>> ELSE <<SetMin(S)>> \o SortedSeq(S \ {SetMin(S)})

\* groupby('build_up_start_time'): the keys ascending, and a key's rows in
\* the order of the raw table
BuildUpKeys(raw) == {raw[i].build_up_start_time : i \in 1..Len(raw)}
BuildUpGroup(raw, key) == SelectSeq(raw, LAMBDA r : r.build_up_start_time = key)

\* line 146: aggfunc='min' skips the missing values
AggMomentumStart(group) ==
    LET set == {group[i].momentum_start_time : i \in 1..Len(group)} \ {None}
    IN IF set = {} THEN None ELSE SetMin(set)

\* line 147
AggEndTime(group) == SetMax({group[i].end_time : i \in 1..Len(group)})

\* lines 148-149
\* variant: aggfunc='first'
AggPeakMax_First(group) == group[1].intensity
AggPeakMax(group) ==
    LET i == CHOOSE i \in 1..Len(group) : \A j \in 1..Len(group) : FracLeq(group[j].intensity, group[i].intensity)
    IN group[i].intensity
AggPeakMin(group) ==
    LET i == CHOOSE i \in 1..Len(group) : \A j \in 1..Len(group) : FracLeq(group[i].intensity, group[j].intensity)
    IN group[i].intensity

\* line 150: the mean, as the exact fraction sum / count
RECURSIVE IntensitySum(_, _)
IntensitySum(group, n) ==
    IF n = 1 THEN group[1].intensity
    ELSE FracAdd(IntensitySum(group, n - 1), group[n].intensity)
AggAvgIntensity(group) ==
    LET sum == IntensitySum(group, Len(group))
    IN Frac(sum.num, sum.den * Len(group))

\* line 151: aggfunc='max' of the strings 'Away Momentum', 'Home Momentum'
\* ('A' < 'H')
AggHomeOrAway(group) ==
    IF \E i \in 1..Len(group) : group[i].home_or_away = Home THEN Home ELSE Away

\* line 154: end_time - momentum_start_time, missing when the start is
\* variant: the seconds counted inclusively
Duration_Inclusive(end_time, momentum_start_time) ==
    IF momentum_start_time = None THEN None ELSE end_time - momentum_start_time + 1
Duration(end_time, momentum_start_time) ==
    IF momentum_start_time = None THEN None ELSE end_time - momentum_start_time

AggregateGroup(raw, key) ==
    LET group == BuildUpGroup(raw, key)
    IN [build_up_start_time |-> key,
        momentum_start_time |-> AggMomentumStart(group),
        end_time |-> AggEndTime(group),
        duration |-> Duration(AggEndTime(group), AggMomentumStart(group)),
        avg_intensity |-> AggAvgIntensity(group),
        peak_intensity_max |-> AggPeakMax(group),
        peak_intensity_min |-> AggPeakMin(group),
        home_or_away |-> AggHomeOrAway(group)]

\* lines 140-163: the empty frame when there is no raw record
AggregateEpisodes(raw) ==
    LET keys == SortedSeq(BuildUpKeys(raw))
    IN [k \in 1..Len(keys) |-> AggregateGroup(raw, keys[k])]

\* ------------------------- calculateIntervalExplosivenessCategorical
\* line 189: ((eventClock - 1) // time_window) + 1, floor division of floats
\* variant: the clock not shifted by one second, (eventClock // time_window) + 1
TimeWindowColumn_NoShift(clock, w) ==
    (clock \div (w * TicksPerSecond)) + 1
TimeWindowColumn(clock, w) ==
    ((clock - TicksPerSecond) \div (w * TicksPerSecond)) + 1

\* lines 190-191, in ticks
WindowStartColumn(clock, w) ==
    (TimeWindowColumn(clock, w) - 1) * w * TicksPerSecond
WindowEndColumn(clock, w) == TimeWindowColumn(clock, w) * w * TicksPerSecond

\* lines 194-196: the rows at the maximum event time, when it is a multiple
\* of the width
AdjustedTimeWindow(rows, clock, w) ==
    LET m == MaxEventTime(rows)
    IN IF m % (w * TicksPerSecond) = 0 /\ clock = m
       THEN m \div (w * TicksPerSecond)
       ELSE TimeWindowColumn(clock, w)

\* line 199
ClampedWindowEnd(rows, clock, w) ==
    IF WindowEndColumn(clock, w) > MaxEventTime(rows)
    THEN MaxEventTime(rows) ELSE WindowEndColumn(clock, w)

\* lines 206-210: a row of window 0 becomes a row of window 1 = [0, width]
WindowedRow(rows, i, w) ==
    LET tw == AdjustedTimeWindow(rows, rows[i].eventClock, w)
    IN [time_window |-> IF tw = 0 THEN 1 ELSE tw,
        window_start |-> IF tw = 0 THEN 0 ELSE WindowStartColumn(rows[i].eventClock, w),
        window_end |-> IF tw = 0 THEN w * TicksPerSecond ELSE ClampedWindowEnd(rows, rows[i].eventClock, w),
        score_diff |-> ScoreDiff(rows[i])]

GameDataWindows(rows, w) == [i \in 1..Len(rows) |-> WindowedRow(rows, i, w)]

\* lines 216-219: per window, (last score_diff - first score_diff) /
\* (window_end - window_start) of the window's first row; the bounds are in
\* ticks, so the quotient in seconds has the numerator scaled
WindowIntensity(group) ==
    Frac((group[Len(group)].score_diff - group[1].score_diff) * TicksPerSecond, group[1].window_end - group[1].window_start)

\* lines 222-226: pd.cut with bins (-inf, -0.08], (-0.08, -0.06], ...,
\* (0.08, inf) and labels 1..10; NaN has no category (0)
Bins == <<Frac(-8, 100), Frac(-6, 100), Frac(-4, 100), Frac(-2, 100), Frac(0, 100), Frac(2, 100), Frac(4, 100), Frac(6, 100), Frac(8, 100)>>
\* variant: left-closed bins (right=False)
MomentumCategory_LeftClosed(x) ==
    IF IsNaN(x) THEN 0
    ELSE CHOOSE l \in 1..(Len(Bins) + 1) :
            /\ l = 1 \/ FracLeq(Bins[l - 1], x)
            /\ l = Len(Bins) + 1 \/ FracLess(x, Bins[l])
MomentumCategory(x) ==
    IF IsNaN(x) THEN 0
    ELSE CHOOSE l \in 1..(Len(Bins) + 1) :
            /\ l = 1 \/ FracLess(Bins[l - 1], x)
            /\ l = Len(Bins) + 1 \/ FracLeq(x, Bins[l])

calculateIntervalExplosivenessCategorical(rows, w) ==
    LET gameData == GameDataWindows(rows, w)
        keys == SortedSeq({gameData[i].time_window : i \in 1..Len(gameData)})
        group(k) == SelectSeq(gameData, LAMBDA r : r.time_window = k)
    IN [k \in 1..Len(keys) |->
           [time_window |-> keys[k],
            momentum_intensity |-> WindowIntensity(group(keys[k])),
            momentum_category |-> MomentumCategory(WindowIntensity(group(keys[k])))]]

\* ------------------------------------------------------------ the inputs
\* A table is built row by row: a row's clock is not before the previous
\* row's (the callers sort the table by eventClock, lines 275 and 308) and a
\* row adds a scoring play to the running score, so the scores only grow.
Row(clock, home, away) == [eventClock |-> clock, scoreHome |-> home, scoreAway |-> away]

NextRows(t, clocks, scorings) ==
    LET last == IF t = <<>> THEN Row(0, 0, 0) ELSE t[Len(t)]
    IN {Append(t, Row(c, last.scoreHome + d[1], last.scoreAway + d[2])) : c \in {x \in clocks : x >= last.eventClock}, d \in scorings}

RECURSIVE TablesOfLen(_, _, _)
TablesOfLen(n, clocks, scorings) ==
    IF n = 0 THEN {<<>>}
    ELSE UNION {NextRows(t, clocks, scorings) : t \in TablesOfLen(n - 1, clocks, scorings)}

TablesUpTo(n, clocks, scorings) == UNION {TablesOfLen(k, clocks, scorings) : k \in 1..n}

Seconds(s) == s * TicksPerSecond

\* small games: every whole second up to MaxClock and one clock between
\* the last two seconds; a row scores nothing, one point for the home side
\* or three for the away side
SmallClocks == {Seconds(s) : s \in 0..MaxClock} \cup {Seconds(MaxClock) - 1}
SmallScorings == {<<0, 0>>, <<1, 0>>, <<0, 3>>}
\* tables of one or two rows at every small clock, and tables of up to
\* MaxEvents rows at second 1 and at second MaxClock
SmallTables ==
    TablesUpTo(2, SmallClocks, SmallScorings) \cup TablesUpTo(MaxEvents, {Seconds(1), Seconds(MaxClock)}, SmallScorings)
SmallGames ==
    {[rows |-> t, threshold |-> Frac(2, 3), tmin |-> 1, tmax |-> 3] : t \in SmallTables}

\* the same single-row tables under a lookahead of 2..3 seconds, where a
\* one-point change stays below the threshold
SlowGames ==
    {[rows |-> t, threshold |-> Frac(2, 3), tmin |-> 2, tmax |-> 3] : t \in TablesUpTo(1, SmallClocks, SmallScorings)}

\* Scenario A: the score is level at every event of a table of one or two
\* rows (a game cut short, a game with overtime), lookahead 20..60 seconds,
\* threshold 0.05
LevelClocks == {0, Seconds(100), Seconds(RegulationSeconds + 20)}
LevelScorings == {<<0, 0>>, <<2, 2>>}
ScenarioAGames ==
    {[rows |-> t, threshold |-> Frac(5, 100), tmin |-> 20, tmax |-> 60] : t \in TablesUpTo(2, LevelClocks, LevelScorings)}

\* Scenario B: the differential is 0 before second 100 and +6 from second
\* 100 on; rows before the jump and after it are optional
BeforeJump == {<<>>, <<Row(0, 0, 0)>>, <<Row(Seconds(50), 2, 2)>>, <<Row(Seconds(100) - 1, 0, 0)>>}
AfterJump == {<<>>, <<Seconds(140)>>, <<Seconds(RegulationSeconds)>>}
ScenarioBTable(before, after) ==
    LET h == IF before = <<>> THEN 0 ELSE before[1].scoreHome
    IN before \o <<Row(Seconds(100), h + 6, h)>> \o [i \in 1..Len(after) |-> Row(after[i], h + 6, h)]
ScenarioBGames ==
    {[rows |-> ScenarioBTable(b, a), threshold |-> Frac(5, 100), tmin |-> 20, tmax |-> 60] : b \in BeforeJump, a \in AfterJump}

\* games of scoring runs under a lookahead of 1..2 seconds: events at
\* second 2 and one second after MaxClock, every row scoring one point for
\* the home side or three for the away side, so that a game can hold two
\* build-ups
RunClocks == {Seconds(2), Seconds(MaxClock + 1)}
RunScorings == {<<1, 0>>, <<0, 3>>}
RunGames ==
    {[rows |-> t, threshold |-> Frac(2, 3), tmin |-> 1, tmax |-> 2] : t \in TablesUpTo(MaxEvents, RunClocks, RunScorings)}

\* Scenario C: the differential changes sign from one second to the next:
\* one point for the home side at second a, three for the away side one
\* second later, and a last row, scoring nothing or three more points for
\* the away side, that keeps the following seconds within the recorded
\* game; lookahead 1..4 seconds
ScenarioCTables ==
    {<<Row(Seconds(a), 1, 0), Row(Seconds(a + 1), 1, 3), Row(Seconds(b), 1, 3 + 3 * k)>> : a \in 1..2, b \in 4..(MaxClock + 1), k \in 0..1}
ScenarioCGames ==
    {[rows |-> t, threshold |-> Frac(2, 3), tmin |-> 1, tmax |-> 4] : t \in ScenarioCTables}

Games == SmallGames \cup SlowGames \cup ScenarioAGames \cup ScenarioBGames \cup RunGames \cup ScenarioCGames

\* interval tables: up to three rows at the start of the game, just before
\* second 1, at second 1,
\* around second 50 and at second 100, and up to MaxEvents + 1 rows at
\* seconds 50 and 100; a row scores nothing, one or two points for the home
\* side, one or three for the away side
IntervalClocks == {0, Seconds(1) - 1, Seconds(1), Seconds(50), Seconds(50) + 1, Seconds(100)}
IntervalScorings == {<<0, 0>>, <<1, 0>>, <<2, 0>>, <<0, 1>>, <<0, 3>>}
IntervalTables ==
    TablesUpTo(3, IntervalClocks, IntervalScorings) \cup TablesUpTo(MaxEvents + 1, {Seconds(50), Seconds(100)}, IntervalScorings)

Widths == 1..MaxWidth \cup {50, 120}

\* ------------------------------------------------------------ the machine
Init ==
    \E g \in Games :
        /\ pbpGameData = g.rows
        /\ explosivenessThreshold = g.threshold
        /\ time_min = g.tmin
        /\ time_max = g.tmax
        /\ pc = "scan"
        /\ current_time = 1
        /\ momentumEvents = <<>>
        /\ aggregatedDataframe = <<>>
        /\ momentumIntensities = <<>>
        /\ time_window = 0
        /\ iterations = 0
        /\ scan_from = 0
        /\ intensities = <<>>
        /\ walked = <<>>
        /\ scoreDiffs = <<>>
        /\ windowedGameData = <<>>
        /\ NoWrappedCall

\* one iteration of the while loop of lines 83-138
ScanStep ==
    /\ pc = "scan"
    /\ current_time <= GameDuration(pbpGameData)
    /\ LET samples == calculateExplosiveness(pbpGameData, current_time, time_min, time_max)
           sig == SignificantMomentumIntervals(samples, explosivenessThreshold)
           st == WalkFrom(sig, 1, current_time, time_min, WalkStart(sig))
       IN /\ intensities' = samples
          /\ scoreDiffs' = ScoreDiffsSeries(pbpGameData, current_time, time_min, time_max)
          /\ IF sig # <<>>
             THEN /\ momentumEvents' = momentumEvents \o st.records
                  /\ walked' = st.walk
                  /\ current_time' = CursorAfterWalk(sig, st)
             ELSE /\ momentumEvents' = momentumEvents
                  /\ walked' = <<>>
                  /\ current_time' = CursorAfterIdle(current_time)
    /\ pbpGameData' = WithScoreDiff(pbpGameData)
    /\ scan_from' = current_time
    /\ iterations' = iterations + 1
    /\ UNCHANGED <<explosivenessThreshold, time_min, time_max, pc, aggregatedDataframe, momentumIntensities, time_window, windowedGameData>>
    /\ UNCHANGED wrapperVars

\* the loop ends; lines 140-163
Aggregate ==
    /\ pc = "scan"
    /\ current_time > GameDuration(pbpGameData)
    /\ aggregatedDataframe' = AggregateEpisodes(momentumEvents)
    /\ pc' = "categorize"
    /\ UNCHANGED <<pbpGameData, explosivenessThreshold, time_min, time_max, current_time, momentumEvents, momentumIntensities, time_window, iterations, scan_from, intensities, walked, scoreDiffs, windowedGameData>>
    /\ UNCHANGED wrapperVars

\* a call of calculateIntervalExplosivenessCategorical on the same table
Categorize ==
    /\ pc = "categorize"
    /\ \E w \in Widths :
        /\ time_window' = w
        /\ windowedGameData' = GameDataWindows(pbpGameData, w)
        /\ momentumIntensities' = calculateIntervalExplosivenessCategorical(pbpGameData, w)
    /\ pc' = "done"
    /\ UNCHANGED <<pbpGameData, explosivenessThreshold, time_min, time_max, current_time, momentumEvents, aggregatedDataframe, iterations, scan_from, intensities, walked, scoreDiffs>>
    /\ UNCHANGED wrapperVars

Next == ScanStep \/ Aggregate \/ Categorize

Spec == Init /\ [][Next]_vars

\* calculateIntervalExplosivenessCategorical called on its own, as
\* seasonIntervalExplosiveness calls it (lines 305-309): no scan precedes it
InitIntervals ==
    \E t \in IntervalTables :
        /\ pbpGameData = t
        /\ explosivenessThreshold = Frac(0, 1)
        /\ time_min = 0
        /\ time_max = 0
        /\ pc = "categorize"
        /\ current_time = 1
        /\ momentumEvents = <<>>
        /\ aggregatedDataframe = <<>>
        /\ momentumIntensities = <<>>
        /\ time_window = 0
        /\ iterations = 0
        /\ scan_from = 0
        /\ intensities = <<>>
        /\ walked = <<>>
        /\ scoreDiffs = <<>>
        /\ windowedGameData = <<>>
        /\ NoWrappedCall

SpecIntervals == InitIntervals /\ [][Categorize]_vars

\* ------------------------------------ retry, src/python/pbp_data.py 13-37
\* the state of the momentum functions, which the retry wrapper never touches
momentumVars ==
    <<pbpGameData, explosivenessThreshold, time_min, time_max, pc, current_time, momentumEvents, aggregatedDataframe, momentumIntensities, time_window, iterations, scan_from, intensities, walked, scoreDiffs, windowedGameData>>

\* the games a wrapped function is asked for, and the values it can return
\* for a game: the game with the number of its actions
GameIds == 1..(MaxEvents + 2)
Payloads(game) == {[gameid |-> game, actions |-> n] : n \in 0..MaxEvents}

\* a call of retryWrapper, line 27: attempts = 0
InitRetry ==
    /\ retries \in 1..MaxRetries
    /\ attempts = 0
    /\ wrapper_pc = "calling"
    /\ wrapper_args \in GameIds
    /\ wrapper_result = None
    /\ pbpGameData = <<>>
    /\ explosivenessThreshold = Frac(0, 1)
    /\ time_min = 0
    /\ time_max = 0
    /\ pc = "done"
    /\ current_time = 1
    /\ momentumEvents = <<>>
    /\ aggregatedDataframe = <<>>
    /\ momentumIntensities = <<>>
    /\ time_window = 0
    /\ iterations = 0
    /\ scan_from = 0
    /\ intensities = <<>>
    /\ walked = <<>>
    /\ scoreDiffs = <<>>
    /\ windowedGameData = <<>>

\* lines 28-30: an attempt within the budget returns the function's value
AttemptReturns ==
    /\ wrapper_pc = "calling"
    /\ attempts < retries
    /\ \E v \in Payloads(wrapper_args) : wrapper_result' = v
    /\ wrapper_pc' = "returned"
    /\ UNCHANGED <<retries, attempts, wrapper_args>>
    /\ UNCHANGED momentumVars

\* lines 31-34: the attempt raises a RequestException, which is printed;
\* the wrapper sleeps 30 seconds and counts the attempt
AttemptRaisesRequestException ==
    /\ wrapper_pc = "calling"
    /\ attempts < retries
    /\ attempts' = attempts + 1
    /\ UNCHANGED <<retries, wrapper_pc, wrapper_args, wrapper_result>>
    /\ UNCHANGED momentumVars

\* line 30: an exception of another class is not caught and leaves the
\* wrapper
AttemptRaisesOther ==
    /\ wrapper_pc = "calling"
    /\ attempts < retries
    /\ wrapper_pc' = "raised"
    /\ UNCHANGED <<retries, attempts, wrapper_args, wrapper_result>>
    /\ UNCHANGED momentumVars

\* line 28 with attempts = retries: the loop ends and the wrapper falls off
\* its end, returning None
LoopExhausted ==
    /\ wrapper_pc = "calling"
    /\ attempts >= retries
    /\ wrapper_result' = None
    /\ wrapper_pc' = "returned"
    /\ UNCHANGED <<retries, attempts, wrapper_args>>
    /\ UNCHANGED momentumVars

NextRetry == AttemptReturns \/ AttemptRaisesRequestException \/ AttemptRaisesOther \/ LoopExhausted

SpecRetry == InitRetry /\ [][NextRetry]_vars

\* ------------------------------------------------------------- the claims
Episodes == {aggregatedDataframe[k] : k \in 1..Len(aggregatedDataframe)}
RawOf(e) == BuildUpGroup(momentumEvents, e.build_up_start_time)
Returned == pc # "scan"

\* C1: every iteration of the scan loop moves the cursor strictly forward,
\* by exactly 1 when no sample is significant and otherwise past every
\* walked sample; the loop has run at most game_duration iterations and it
\* is left only with the cursor beyond game_duration.
C1_ScanTerminates ==
    /\ [][iterations' # iterations =>
            /\ current_time' > current_time
            /\ walked' = <<>> => current_time' = current_time + 1
            /\ \A i \in 1..Len(walked') : current_time' > walked'[i].time]_vars
    /\ [](iterations <= GameDuration(pbpGameData))
    /\ [](Returned => current_time > GameDuration(pbpGameData))

\* a finished scan that jumped: it took fewer iterations than seconds
C1_Witness ==
    /\ Returned
    /\ momentumEvents # <<>>
    /\ iterations < GameDuration(pbpGameData)

EvaluatedTimes == {intensities[i].time : i \in 1..Len(intensities)}
LastEventSecond == IntOf(MaxEventTime(pbpGameData))

\* C3 as claimed: at every cursor the evaluated seconds are exactly
\* cursor + minLookahead .. min(cursor + maxLookahead, gameDuration), with
\* gameDuration = max(observed max second, 2880).
C3_EvaluatesToGameDuration ==
    scan_from > 0 =>
        EvaluatedTimes = (scan_from + time_min)..Min(scan_from + time_max, GameDuration(pbpGameData))

\* C3 amended: at every cursor the evaluated seconds are exactly
\* cursor + minLookahead .. min(cursor + maxLookahead, last event second),
\* each once and in order; no second after the last event is evaluated.
C3_EvaluatesToLastEvent ==
    scan_from > 0 =>
        LET lo == scan_from + time_min
            hi == Min(scan_from + time_max, LastEventSecond)
        IN /\ Len(intensities) = Max(hi - lo + 1, 0)
           /\ \A i \in 1..Len(intensities) : intensities[i].time = lo + i - 1

\* a window cut short by the last event of a game that ends before 2880
C3_Witness ==
    /\ scan_from > 0
    /\ intensities # <<>>
    /\ LastEventSecond < RegulationSeconds
    /\ scan_from + time_max > LastEventSecond

\* C4 as claimed: the side of an episode is the side of the raw record of
\* its build-up with the greatest end_time.
C4_SideOfLastRecord ==
    Returned =>
        \A e \in Episodes :
            LET g == RawOf(e)
            IN \A i \in 1..Len(g) :
                g[i].end_time = e.end_time => e.home_or_away = g[i].home_or_away

\* C5 as claimed: the interval table has one row for each of the
\* ceil(duration / width) intervals, numbered 1.. without gap, and the row
\* of an interval without event has intensity 0 and category 5.
IntervalCount == (MaxEventTime(pbpGameData) + Seconds(time_window) - 1) \div Seconds(time_window)
EventsIn(k) == {i \in 1..Len(pbpGameData) : Seconds((k - 1) * time_window) < pbpGameData[i].eventClock /\ pbpGameData[i].eventClock <= Seconds(k * time_window)}
C5_DenseIntervals ==
    pc = "done" =>
        /\ Len(momentumIntensities) = IntervalCount
        /\ \A k \in 1..IntervalCount :
            /\ Cardinality({j \in 1..Len(momentumIntensities) : momentumIntensities[j].time_window = k}) = 1
            /\ EventsIn(k) = {} =>
                \E j \in 1..Len(momentumIntensities) :
                    /\ momentumIntensities[j].time_window = k
                    /\ momentumIntensities[j].momentum_intensity.num = 0
                    /\ momentumIntensities[j].momentum_category = 5

\* Scenario B: differential 0 before second 100, +6 from second 100 on,
\* lookahead 20..60, threshold 0.05
IsScenarioB ==
    /\ time_min = 20 /\ time_max = 60
    /\ FracEq(explosivenessThreshold, Frac(1, 20))
    /\ \A i \in 1..Len(pbpGameData) :
        IF pbpGameData[i].eventClock < Seconds(100)
        THEN ScoreDiff(pbpGameData[i]) = 0
        ELSE ScoreDiff(pbpGameData[i]) = 6
    /\ \E i \in 1..Len(pbpGameData) : pbpGameData[i].eventClock = Seconds(100)

\* the earliest significant second at least minLookahead after the cursor
EarliestSignificant(cursor) ==
    SetMin({t \in (cursor + time_min)..(cursor + time_max) :
        /\ t <= LastEventSecond
        /\ IsSignificant(IntensityAt(pbpGameData, cursor, t), explosivenessThreshold)})

\* C6 as claimed: in Scenario B a Home episode is reported whose
\* build_up_start_time lies in 80..100 and whose momentum_start_time is the
\* earliest significant second at least 20 after its cursor.
C6_BuildUpNearJump ==
    Returned /\ IsScenarioB =>
        \E e \in Episodes :
            /\ e.home_or_away = Home
            /\ e.build_up_start_time \in 80..100
            /\ e.momentum_start_time = EarliestSignificant(e.build_up_start_time)

\* C6 amended: in Scenario B exactly one episode is reported; it is a Home
\* episode, its build_up_start_time is 40 (100 - maxLookahead, the first
\* cursor whose window reaches second 100) and its momentum_start_time is
\* the earliest significant second at least 20 after the cursor, second 100.
C6_BuildUpAtWindowReach ==
    Returned /\ IsScenarioB =>
        /\ Len(aggregatedDataframe) = 1
        /\ \E e \in Episodes :
            /\ e.home_or_away = Home
            /\ e.build_up_start_time = 40
            /\ e.momentum_start_time = EarliestSignificant(e.build_up_start_time)
            /\ e.momentum_start_time = 100

C6_Witness ==
    /\ Returned
    /\ IsScenarioB
    /\ Len(pbpGameData) = 3
    /\ aggregatedDataframe # <<>>

\* no sample of any cursor position reaches the threshold (a cursor after
\* the last event second has no sample)
BelowThreshold(x) ==
    IsNaN(x) \/ Abs(x.num) * explosivenessThreshold.den < explosivenessThreshold.num * x.den
NoSignificantSample ==
    \A c \in 1..Min(GameDuration(pbpGameData), LastEventSecond) :
        LET samples == calculateExplosiveness(pbpGameData, c, time_min, time_max)
        IN \A i \in 1..Len(samples) : BelowThreshold(samples[i].intensity)

\* C7: when no sample of any cursor position reaches the threshold, no raw
\* record is emitted and the returned episode table is empty.
C7_NoSignificanceNoEpisode ==
    Returned /\ NoSignificantSample =>
        /\ momentumEvents = <<>>
        /\ aggregatedDataframe = <<>>

\* a finished scan that met a sample that is not 0 and none that is significant
C7_Witness ==
    /\ Returned
    /\ NoSignificantSample
    /\ aggregatedDataframe = <<>>
    /\ \E c \in 1..LastEventSecond :
        LET samples == calculateExplosiveness(pbpGameData, c, time_min, time_max)
        IN \E i \in 1..Len(samples) : ~IsNaN(samples[i].intensity) /\ samples[i].intensity.num # 0

\* Scenario A: level score at every event, threshold 0.05
IsScenarioA ==
    /\ FracEq(explosivenessThreshold, Frac(1, 20))
    /\ \A i \in 1..Len(pbpGameData) : ScoreDiff(pbpGameData[i]) = 0

\* C8: in Scenario A the detector returns no episode and every interval
\* row has intensity 0 and category 5.
C8_LevelGame ==
    IsScenarioA =>
        /\ Returned => momentumEvents = <<>> /\ aggregatedDataframe = <<>>
        /\ pc = "done" =>
            \A j \in 1..Len(momentumIntensities) :
                /\ FracEq(momentumIntensities[j].momentum_intensity, Frac(0, 1))
                /\ momentumIntensities[j].momentum_category = 5

C8_Witness ==
    /\ pc = "done"
    /\ IsScenarioA
    /\ Len(momentumIntensities) >= 2
    /\ \E i \in 1..Len(pbpGameData) : pbpGameData[i].scoreHome > 0

\* C9: a walked significant sample closes the build-up only if it comes
\* more than one second after the sample walked before it; the first walked
\* sample never closes it, and neither does a sample of the opposite sign
\* one second after the previous one.
C9_FlickerGuard ==
    \A i \in 1..Len(walked) :
        /\ walked[i].reversal => i > 1 /\ walked[i].time - walked[i - 1].time > 1
        /\ (i > 1 /\ walked[i].time - walked[i - 1].time = 1) => ~walked[i].reversal

\* a flicker: two walked samples of opposite sign one second apart
C9_Witness ==
    \E i \in 2..Len(walked) :
        /\ walked[i].time - walked[i - 1].time = 1
        /\ (walked[i].intensity.num < 0) # (walked[i - 1].intensity.num < 0)
        /\ ~walked[i].reversal

\* the differential of the last row at or before second t (none: NaN), and
\* of the last row strictly before second t (none: 0)
RowsUpTo(t) == {i \in 1..Len(pbpGameData) : pbpGameData[i].eventClock <= Seconds(t)}
RowsBefore(t) == {i \in 1..Len(pbpGameData) : pbpGameData[i].eventClock < Seconds(t)}

\* C10: the samples returned for a start time are, for every second t of
\* start + minLookahead .. min(start + maxLookahead, last event second),
\* (d(t) - r) / (t - start), d(t) the forward-filled differential at t and
\* r the differential of the last event strictly before start (0 if none).
C10_IntensityFormula ==
    scan_from > 0 =>
        \A t \in (scan_from + time_min)..Min(scan_from + time_max, LastEventSecond) :
            \E i \in 1..Len(intensities) :
                /\ intensities[i].time = t
                /\ LET r == IF RowsBefore(scan_from) = {} THEN 0 ELSE ScoreDiff(pbpGameData[SetMax(RowsBefore(scan_from))])
                   IN IF RowsUpTo(t) = {}
                      THEN IsNaN(intensities[i].intensity)
                      ELSE FracEq(intensities[i].intensity, Frac(ScoreDiff(pbpGameData[SetMax(RowsUpTo(t))]) - r, t - scan_from))

\* a sample measured against a reference that is not 0
C10_Witness ==
    /\ scan_from > 0
    /\ RowsBefore(scan_from) # {}
    /\ ScoreDiff(pbpGameData[SetMax(RowsBefore(scan_from))]) # 0
    /\ \E i \in 1..Len(intensities) : ~IsNaN(intensities[i].intensity) /\ intensities[i].intensity.num # 0

\* the differential looked up at second t, as the table gives it: the last
\* row in input order at or before t, and the given value when there is none
LookupAt(t, before_first) ==
    IF RowsUpTo(t) = {} THEN before_first
    ELSE Frac(ScoreDiff(pbpGameData[SetMax(RowsUpTo(t))]), 1)

\* C11 as claimed: the differential looked up at every evaluated second t
\* is that of the last row in input order at or before t, and 0 when t
\* precedes the first event.
C11_LookupDefaultZero ==
    scan_from > 0 =>
        \A i \in 1..Len(scoreDiffs) :
            scoreDiffs[i].score_diff = LookupAt(scoreDiffs[i].time, Frac(0, 1))

\* C11: the differential looked up at every evaluated second t is that of
\* the last row in input order at or before t (of rows sharing a clock the
\* later one), and it is undefined (NaN), not 0, when t precedes the first
\* event; the sample of such a second is NaN as well.
C11_LookupForwardFill ==
    scan_from > 0 =>
        /\ Len(scoreDiffs) = Len(intensities)
        /\ \A i \in 1..Len(scoreDiffs) :
            /\ scoreDiffs[i].time = scan_from + time_min + i - 1
            /\ scoreDiffs[i].score_diff = LookupAt(scoreDiffs[i].time, NaN)
            /\ RowsUpTo(scoreDiffs[i].time) = {} => IsNaN(intensities[i].intensity)

\* a second before the first event and a second whose latest clock is
\* shared by two rows of different differential are both looked up
C11_Witness ==
    /\ scan_from > 0
    /\ \E i \in 1..Len(scoreDiffs) : RowsUpTo(scoreDiffs[i].time) = {}
    /\ \E i \in 1..Len(scoreDiffs) :
          LET upto == RowsUpTo(scoreDiffs[i].time)
          IN /\ upto # {}
             /\ \E j \in upto :
                   /\ j < SetMax(upto)
                   /\ pbpGameData[j].eventClock = pbpGameData[SetMax(upto)].eventClock
                   /\ ScoreDiff(pbpGameData[j]) # ScoreDiff(pbpGameData[SetMax(upto)])

\* the intervals partition [1, game duration] into windows of w seconds:
\* interval k holds the clocks of ((k-1)*w, k*w] whole seconds, that is
\* (k-1)*w + 1 <= clock < k*w + 1, and interval 1 the clocks before second 1
IntervalOf(clock, w) ==
    SetMin({k \in 1..(clock + 1) : clock < Seconds(k * w + 1)})
IntervalRows(k, w) ==
    {i \in 1..Len(pbpGameData) : IntervalOf(pbpGameData[i].eventClock, w) = k}
IntervalStart(k, w) == Seconds((k - 1) * w)
IntervalEnd(k, w) == Min(Seconds(k * w), MaxEventTime(pbpGameData))

\* C12 as claimed: every interval row holds the differential of the last
\* event of its interval minus that of the first, divided by
\* windowEnd - windowStart, with windowStart = (index-1)*intervalWidth and
\* windowEnd = min(index*intervalWidth, observed max event time) (an
\* interval of positive width by these bounds).
C12_IntervalIntensity ==
    pc = "done" =>
        \A n \in 1..Len(momentumIntensities) :
            LET k == momentumIntensities[n].time_window
                members == IntervalRows(k, time_window)
            IN IntervalEnd(k, time_window) > IntervalStart(k, time_window) =>
               /\ members # {}
               /\ FracEq(momentumIntensities[n].momentum_intensity,
                         Frac((ScoreDiff(pbpGameData[SetMax(members)]) - ScoreDiff(pbpGameData[SetMin(members)])) * TicksPerSecond,
                              IntervalEnd(k, time_window) - IntervalStart(k, time_window)))

\* the bounds of the interval row n, those the code divides by: the bounds
\* of the first row of its window
WindowOfRow(n) ==
    LET k == momentumIntensities[n].time_window
    IN windowedGameData[SetMin({i \in 1..Len(windowedGameData) : windowedGameData[i].time_window = k})]
RECURSIVE WindowWidthSum(_)
WindowWidthSum(n) ==
    IF n = 0 THEN 0
    ELSE WindowWidthSum(n - 1) + WindowOfRow(n).window_end - WindowOfRow(n).window_start

\* C13 as claimed: windowEnd - windowStart summed over the interval rows of
\* a game is the observed maximum event time, and the windowEnd of the last
\* interval row is the observed maximum event time.
C13_WidthsSumToDuration ==
    pc = "done" =>
        /\ WindowWidthSum(Len(momentumIntensities)) = MaxEventTime(pbpGameData)
        /\ WindowOfRow(Len(momentumIntensities)).window_end = MaxEventTime(pbpGameData)

\* the breakpoints -0.08, -0.06, ..., 0.08 as the multiples 2*b/100
BreakpointsBelow(x) == {b \in -4..4 : 2 * b * x.den < x.num * 100}
OnBreakpoint(x) == \E b \in -4..4 : 2 * b * x.den = x.num * 100

\* C14: every interval row's category is 1 + the number of breakpoints of
\* {-0.08, ..., 0.08} strictly below its rawIntensity: one category of
\* 1..10, a value on a breakpoint in the lower bucket (0 in 5), and a
\* category that never decreases as rawIntensity grows.
C14_CategoryByBreakpoints ==
    pc = "done" =>
        \A n \in 1..Len(momentumIntensities) :
            LET x == momentumIntensities[n].momentum_intensity
                c == momentumIntensities[n].momentum_category
            IN /\ x.den > 0
               /\ c = 1 + Cardinality(BreakpointsBelow(x))
               /\ c \in 1..10
               /\ x.num = 0 => c = 5
               /\ \A m \in 1..Len(momentumIntensities) :
                     FracLeq(x, momentumIntensities[m].momentum_intensity)
                         => c <= momentumIntensities[m].momentum_category

\* an interval table with a row of rawIntensity 0 and a row on another
\* breakpoint
C14_Witness ==
    /\ pc = "done"
    /\ \E n \in 1..Len(momentumIntensities) :
          momentumIntensities[n].momentum_intensity.num = 0
    /\ \E n \in 1..Len(momentumIntensities) :
          /\ momentumIntensities[n].momentum_intensity.num # 0
          /\ OnBreakpoint(momentumIntensities[n].momentum_intensity)

\* the raw records of a build-up, by position in the raw table
RecordsOf(key) == {i \in 1..Len(momentumEvents) : momentumEvents[i].build_up_start_time = key}

\* C15: every returned episode has the least momentum_start_time and the
\* greatest end_time of the raw records sharing its build_up_start_time,
\* and duration = end_time - momentum_start_time.
C15_EpisodeFromRawRecords ==
    Returned =>
        \A k \in 1..Len(aggregatedDataframe) :
            LET e == aggregatedDataframe[k]
                group == RecordsOf(e.build_up_start_time)
            IN /\ group # {}
               /\ \E i \in group : momentumEvents[i].momentum_start_time = e.momentum_start_time
               /\ \A i \in group : momentumEvents[i].momentum_start_time >= e.momentum_start_time
               /\ \E i \in group : momentumEvents[i].end_time = e.end_time
               /\ \A i \in group : momentumEvents[i].end_time <= e.end_time
               /\ e.duration = e.end_time - e.momentum_start_time

\* an episode aggregated from several raw records, of positive duration
C15_Witness ==
    /\ Returned
    /\ \E k \in 1..Len(aggregatedDataframe) :
          /\ Cardinality(RecordsOf(aggregatedDataframe[k].build_up_start_time)) > 1
          /\ aggregatedDataframe[k].duration > 0
          /\ aggregatedDataframe[k].momentum_start_time # None

\* C16: no two returned episodes share a build_up_start_time: the raw
\* records keyed by the cursor of a walk are exactly the records that walk
\* appended, one per walked sample, the keys never decrease along the raw
\* table, and every key of the raw table is the key of one episode.
C16_OneBuildUpPerCursor ==
    /\ walked # <<>> =>
          RecordsOf(scan_from) = (Len(momentumEvents) - Len(walked) + 1)..Len(momentumEvents)
    /\ \A i, j \in 1..Len(momentumEvents) :
          i < j => momentumEvents[i].build_up_start_time <= momentumEvents[j].build_up_start_time
    /\ Returned =>
          /\ \A i, j \in 1..Len(aggregatedDataframe) :
                i < j => aggregatedDataframe[i].build_up_start_time < aggregatedDataframe[j].build_up_start_time
          /\ {aggregatedDataframe[k].build_up_start_time : k \in 1..Len(aggregatedDataframe)} = BuildUpKeys(momentumEvents)

\* a game returned with two episodes, one of them of several raw records
C16_Witness ==
    /\ Returned
    /\ Len(aggregatedDataframe) > 1
    /\ \E k \in 1..Len(aggregatedDataframe) :
          Cardinality(RecordsOf(aggregatedDataframe[k].build_up_start_time)) > 1

\* C18 as claimed: no step of the evaluator, of the detector scan or of the
\* categorizer adds, removes or modifies a row or a field of the caller's
\* event table.
C18_TableUnchanged == [][pbpGameData' = pbpGameData]_vars

\* C19: at a cursor whose first candidate second, cursor + minLookahead,
\* lies after the last event of the game, calculateExplosiveness returns
\* the empty sequence and the detector finds no significant sample: it
\* walks nothing, emits no record keyed by that cursor and moves the cursor
\* on by one.
C19_EmptyRangeEmptySamples ==
    (scan_from > 0 /\ Seconds(scan_from + time_min) > MaxEventTime(pbpGameData)) =>
        /\ intensities = <<>>
        /\ scoreDiffs = <<>>
        /\ walked = <<>>
        /\ RecordsOf(scan_from) = {}
        /\ current_time = scan_from + 1

\* a cursor still within the recorded game whose lookahead falls outside it
C19_Witness ==
    /\ scan_from > 0
    /\ Seconds(scan_from) <= MaxEventTime(pbpGameData)
    /\ Seconds(scan_from + time_min) > MaxEventTime(pbpGameData)
    /\ intensities = <<>>
    /\ current_time = scan_from + 1

\* the records a walk started at cursor c of game g appends
WalkRecords(g, c) ==
    LET sig == SignificantMomentumIntervals(calculateExplosiveness(g.rows, c, g.tmin, g.tmax), g.threshold)
    IN IF sig = <<>> THEN <<>>
       ELSE WalkFrom(sig, 1, c, g.tmin, WalkStart(sig)).records

\* C20 as claimed: a raw record can be emitted with a null momentumStart:
\* under the threshold and lookahead of the run, some game has a cursor
\* position within its recorded time whose walk appends a record without
\* momentum start.
C20_NullStartEmitted ==
    \E g \in {h \in Games : h.threshold = explosivenessThreshold /\ h.tmin = time_min /\ h.tmax = time_max} :
        \E c \in 1..IntOf(MaxEventTime(g.rows)) :
            \E i \in 1..Len(WalkRecords(g, c)) :
                WalkRecords(g, c)[i].momentum_start_time = None

\* C20: no raw record and no episode has a null momentumStart: the first
\* walked sample of a build-up lies at least minLookahead after the cursor
\* and has the walk's direction, so the momentum start is set, to a time at
\* least minLookahead after the build-up start, before the first record is
\* appended.
C20_MomentumStartNeverNull ==
    /\ walked # <<>> => walked[1].time - scan_from >= time_min
    /\ \A i \in 1..Len(momentumEvents) :
          /\ momentumEvents[i].momentum_start_time # None
          /\ momentumEvents[i].momentum_start_time >= momentumEvents[i].build_up_start_time + time_min
    /\ \A k \in 1..Len(aggregatedDataframe) :
          /\ aggregatedDataframe[k].momentum_start_time # None
          /\ aggregatedDataframe[k].duration # None

\* a walk whose first sample lies exactly minLookahead after the cursor and
\* which ends in a reversal, its records all with that momentum start
C20_Witness ==
    /\ walked # <<>>
    /\ walked[1].time = scan_from + time_min
    /\ walked[Len(walked)].reversal
    /\ \A i \in RecordsOf(scan_from) : momentumEvents[i].momentum_start_time = walked[1].time

\* C21 as claimed: after a walk closed by a reversal at the significant
\* sample of time t, the cursor of the next scan step is t.
C21_CursorAtReversal ==
    (walked # <<>> /\ walked[Len(walked)].reversal) =>
        current_time = walked[Len(walked)].time

\* the significant samples of the last iteration, in time order
SignificantSamples == SelectSeq(intensities, LAMBDA x : FracLeq(explosivenessThreshold, FracAbs(x.intensity)))
Negative(x) == x.intensity.num < 0

\* C22 as claimed: the walk is closed at the earliest significant sample
\* whose sign differs from that of the first significant sample of the
\* cursor and whose time is more than 1 second after that first sample.
C22_ClosedAgainstFirstSample ==
    scan_from > 0 =>
        LET sig == SignificantSamples
            closes(i) == /\ Negative(sig[i]) # Negative(sig[1])
                         /\ sig[i].time - sig[1].time > 1
        IN \A i \in 1..Len(sig) :
              (closes(i) /\ \A j \in 1..(i - 1) : ~closes(j)) =>
                  /\ Len(walked) = i
                  /\ walked[i].reversal

\* C22: the walk is closed at the earliest significant sample whose sign
\* differs from that of the significant sample just before it and whose
\* time is more than 1 second after that previous sample; the samples up to
\* it are walked in order, and without such a sample all are walked.
C22_ClosedAgainstPreviousSample ==
    scan_from > 0 =>
        LET sig == SignificantSamples
            closes(i) == /\ i > 1
                         /\ Negative(sig[i]) # Negative(sig[i - 1])
                         /\ sig[i].time - sig[i - 1].time > 1
            closing == {i \in 1..Len(sig) : closes(i)}
        IN /\ Len(walked) = IF closing = {} THEN Len(sig) ELSE SetMin(closing)
           /\ \A i \in 1..Len(walked) :
                 /\ walked[i].time = sig[i].time
                 /\ walked[i].intensity = sig[i].intensity
                 /\ walked[i].reversal <=> closes(i)

\* a walk that passes, without closing, a sample of the sign opposite to
\* the first sample's more than 1 second after it
C22_Witness ==
    /\ scan_from > 0
    /\ \E i \in 2..Len(walked) :
          /\ Negative(walked[i]) # Negative(walked[1])
          /\ walked[i].time - walked[1].time > 1
          /\ ~walked[i].reversal

\* C23: in a scan step without reversal, when no sample is significant
\* the cursor becomes cursor + 1 and no record is emitted, and when the walk
\* goes through all significant samples the cursor becomes the time of the
\* last significant sample + 1.
C23_CursorWithoutReversal ==
    scan_from > 0 =>
        /\ (\A i \in 1..Len(intensities) : BelowThreshold(intensities[i].intensity)) =>
              /\ current_time = scan_from + 1
              /\ walked = <<>>
              /\ RecordsOf(scan_from) = {}
        /\ (walked # <<>> /\ ~walked[Len(walked)].reversal) =>
              /\ Len(walked) = Len(SignificantSamples)
              /\ current_time = SignificantSamples[Len(SignificantSamples)].time + 1

\* a walk of several samples without reversal whose last significant sample
\* is not the last evaluated second
C23_Witness ==
    /\ scan_from > 0
    /\ Len(walked) > 1
    /\ ~walked[Len(walked)].reversal
    /\ walked[Len(walked)].time < intensities[Len(intensities)].time
    /\ current_time = walked[Len(walked)].time + 1

\* C24: the raw records of a build-up are, in order, one record per walked
\* sample up to and including a reversal sample: each carries the cursor of
\* the walk as build_up_start_time and the time and intensity of its sample,
\* the sample times are distinct, and a reversal is the last sample walked
\* and the last record of the build-up.
C24_OneRecordPerWalkedSample ==
    walked # <<>> =>
        LET n == Len(walked)
            base == Len(momentumEvents) - n
        IN /\ base >= 0
           /\ RecordsOf(scan_from) = (base + 1)..(base + n)
           /\ \A j \in 1..n :
                 /\ momentumEvents[base + j].build_up_start_time = scan_from
                 /\ momentumEvents[base + j].end_time = walked[j].time
                 /\ momentumEvents[base + j].end_time = SignificantSamples[j].time
                 /\ momentumEvents[base + j].intensity = walked[j].intensity
                 /\ walked[j].reversal => j = n
                 /\ \A k \in 1..(j - 1) : walked[k].time < walked[j].time

\* a build-up of several records closed by a reversal
C24_Witness ==
    /\ Len(walked) > 1
    /\ walked[Len(walked)].reversal
    /\ Cardinality(RecordsOf(scan_from)) = Len(walked)
    /\ momentumEvents[Len(momentumEvents)].end_time = walked[Len(walked)].time

\* C25: for minLookahead >= 1 every sample returned to the scan is taken
\* at a second t with t - cursor >= minLookahead >= 1 and is the quotient by
\* t - cursor; a sample is undefined only where no event precedes t, never
\* by a zero divisor.
C25_PositiveDenominator ==
    (scan_from > 0 /\ time_min >= 1) =>
        \A i \in 1..Len(intensities) :
            LET x == intensities[i]
            IN /\ x.time - scan_from >= time_min
               /\ IsNaN(x.intensity) => RowsUpTo(x.time) = {}
               /\ ~IsNaN(x.intensity) => x.intensity.den = x.time - scan_from /\ x.intensity.den >= 1

\* a sample that is not 0 taken exactly one second after the cursor
C25_Witness ==
    /\ scan_from > 0
    /\ time_min = 1
    /\ \E i \in 1..Len(intensities) :
          /\ intensities[i].time = scan_from + 1
          /\ intensities[i].intensity.den = 1
          /\ intensities[i].intensity.num # 0

\* C26 as claimed: a call through the retry wrapper that completes
\* normally returns the value of an attempt that succeeded within the
\* budget; when every attempt raised a RequestException the call does not
\* complete normally.
C26_ResolvedOrRaised ==
    wrapper_pc = "returned" =>
        /\ attempts < retries
        /\ wrapper_result \in Payloads(wrapper_args)

\* C27: for threshold > 0 and minLookahead >= 1, the raw records of a
\* build-up all carry one momentum_start_time, which is not null and is the
\* time of the first significant sample found at the build-up's cursor.
C27_StartIsFirstSignificantSample ==
    (explosivenessThreshold.num > 0 /\ time_min >= 1) =>
        /\ \A i, j \in 1..Len(momentumEvents) :
              momentumEvents[i].build_up_start_time = momentumEvents[j].build_up_start_time
                  => momentumEvents[i].momentum_start_time = momentumEvents[j].momentum_start_time
        /\ walked # <<>> =>
              \A i \in RecordsOf(scan_from) :
                  /\ momentumEvents[i].momentum_start_time # None
                  /\ momentumEvents[i].momentum_start_time = SignificantSamples[1].time

\* a build-up of several records in which the sign changes, all records
\* with the time of the first walked sample
C27_Witness ==
    /\ Len(walked) > 2
    /\ \E i \in 2..Len(walked) : Negative(walked[i]) # Negative(walked[1])
    /\ \A i \in RecordsOf(scan_from) : momentumEvents[i].momentum_start_time = walked[1].time

\* C28: every returned episode has build_up_start_time + minLookahead <=
\* momentum_start_time <= end_time <= min(build_up_start_time +
\* maxLookahead, last event second), and so 0 <= duration <= maxLookahead -
\* minLookahead.
C28_EpisodeWithinLookahead ==
    Returned =>
        \A k \in 1..Len(aggregatedDataframe) :
            LET e == aggregatedDataframe[k]
            IN /\ e.build_up_start_time + time_min <= e.momentum_start_time
               /\ e.momentum_start_time <= e.end_time
               /\ e.end_time <= e.build_up_start_time + time_max
               /\ e.end_time <= LastEventSecond
               /\ 0 <= e.duration
               /\ e.duration <= time_max - time_min

\* an episode that spans the whole lookahead window, and one that ends at
\* the last event second
C28_Witness ==
    /\ Returned
    /\ \E k \in 1..Len(aggregatedDataframe) :
          /\ aggregatedDataframe[k].momentum_start_time = aggregatedDataframe[k].build_up_start_time + time_min
          /\ aggregatedDataframe[k].duration = time_max - time_min
          /\ aggregatedDataframe[k].duration > 0
    /\ \E k \in 1..Len(aggregatedDataframe) :
          aggregatedDataframe[k].end_time = LastEventSecond

\* C29: the raw records are emitted with strictly increasing end_time over
\* the whole scan, and of two returned episodes the one of the smaller
\* build_up_start_time ends strictly before the build_up_start_time of the
\* other.
C29_EpisodesDisjointAndOrdered ==
    /\ \A i, j \in 1..Len(momentumEvents) :
          i < j => momentumEvents[i].end_time < momentumEvents[j].end_time
    /\ Returned =>
          \A k, l \in 1..Len(aggregatedDataframe) :
              aggregatedDataframe[k].build_up_start_time < aggregatedDataframe[l].build_up_start_time
                  => aggregatedDataframe[k].end_time < aggregatedDataframe[l].build_up_start_time

\* two returned episodes, the first of several raw records
C29_Witness ==
    /\ Returned
    /\ Len(aggregatedDataframe) > 1
    /\ Cardinality(RecordsOf(aggregatedDataframe[1].build_up_start_time)) > 1
    /\ aggregatedDataframe[1].end_time + 1 = aggregatedDataframe[2].build_up_start_time

\* C30: every interval row is computed over a window of at least one
\* second, windowEnd - windowStart >= 1, the clamped last window and the
\* window of the events before second 1 included, so its rawIntensity is a
\* quotient by a positive number.
C30_WindowAtLeastOneSecond ==
    pc = "done" =>
        \A n \in 1..Len(momentumIntensities) :
            /\ WindowOfRow(n).window_end - WindowOfRow(n).window_start >= TicksPerSecond
            /\ momentumIntensities[n].momentum_intensity.den = WindowOfRow(n).window_end - WindowOfRow(n).window_start

\* a table whose first event is before second 1 and whose last window is
\* clamped to a width of exactly one second
C30_Witness ==
    /\ pc = "done"
    /\ pbpGameData[1].eventClock < Seconds(1)
    /\ Len(momentumIntensities) > 1
    /\ LET last == WindowOfRow(Len(momentumIntensities))
       IN /\ last.window_end = MaxEventTime(pbpGameData)
          /\ last.window_end < Seconds(momentumIntensities[Len(momentumIntensities)].time_window * time_window)
          /\ last.window_end - last.window_start = TicksPerSecond

====
